---------------------------- MODULE Spec2Model ----------------------------
(***************************************************************************)
(* Model of src/main.py: a FastAPI process with one GET handler,           *)
(* insert_bigquery, that submits a BigQuery load job (CSV from Cloud       *)
(* Storage, WRITE_TRUNCATE, one leading row skipped), blocks on the job,   *)
(* reads the destination table's metadata and answers {"data": num_rows}.  *)
(*                                                                         *)
(* The handler is modelled statement by statement, one action per call it  *)
(* makes.  Sync handlers run on the framework's thread pool, so several    *)
(* invocations may interleave.  The warehouse and the object store are the *)
(* environment: load jobs move pending -> running -> done/error, a job     *)
(* that succeeds rewrites the destination table from the object as it is   *)
(* at that moment, and any external call may fail.                         *)
(***************************************************************************)
EXTENDS Integers, Sequences, FiniteSets, TLC

(* ------------------------------ bounds --------------------------------- *)

\* Number of handler invocations in a run.
NumInvocations == 2
\* Longest source file, in lines.
MaxLines == 2
\* How often the environment rewrites a source object during a run.
MaxSourceChanges == 1
\* How many of the five settings may be unset or empty at process start.
MaxDegenerate == 1

Invocations == 1..NumInvocations

(* ------------------------- the environment's data ---------------------- *)

VarNames ==
  {"GCP_PROJECT_ID", "BQ_DATASET", "BQ_TABLE_NAME", "GCS_BUCKET_NAME",
   "GCS_CSV_FILE_PATH"}

\* The deployment's intended settings.
Intended ==
  [GCP_PROJECT_ID |-> "p", BQ_DATASET |-> "d", BQ_TABLE_NAME |-> "t",
   GCS_BUCKET_NAME |-> "b", GCS_CSV_FILE_PATH |-> "file.csv"]

\* A setting is optional: {} when the variable is unset, {s} when it is s.
Settings(n) == {{}, {""}, {Intended[n]}}

Degenerate(e) == {n \in VarNames : e[n] # {Intended[n]}}

Environs ==
  {e \in [VarNames -> {{}, {""}, {"p"}, {"d"}, {"t"}, {"b"}, {"file.csv"}}] :
     /\ \A n \in VarNames : e[n] \in Settings(n)
     /\ Cardinality(Degenerate(e)) <= MaxDegenerate}

\* A line of a source object: a header line, a data row, or a line that is
\* not well-formed CSV.
Lines == {"hdr", "row", "bad"}

RECURSIVE SeqsUpTo(_, _)
SeqsUpTo(S, n) ==
  IF n = 0 THEN {<<>>}
  ELSE LET shorter == SeqsUpTo(S, n - 1)
       IN shorter \cup {Append(s, x) : s \in {t \in shorter : Len(t) = n - 1}, x \in S}

Files == SeqsUpTo(Lines, MaxLines)

\* The objects and tables the environment may hold.
ObjectUris == {"gs://b/file.csv", "gs://b/None"}
TableIds == {"p.d.t", "p.d.None"}

VARIABLES
  environ,            \* the process environment after load_dotenv()
  storage,            \* object store: uri -> [exists, lines]
  tables,             \* warehouse: table id -> [exists, rows]
  jobs,               \* load jobs submitted so far
  pc,                 \* each invocation's position in insert_bigquery
  table_id,           \* locals of insert_bigquery, per invocation
  uri,
  job_config,
  load_job,
  destination_table,
  responses,          \* responses emitted, per invocation
  srcVersion,         \* number of source rewrites so far
  lastWriter,         \* table id -> the load job that last rewrote it (0: none)
  hist                \* per invocation: what it has observed and done

vars ==
  <<environ, storage, tables, jobs, pc, table_id, uri, job_config, load_job,
    destination_table, responses, srcVersion, lastWriter, hist>>

(* ------------------------- module-level code --------------------------- *)

os_getenv(name) == environ[name]

GCP_PROJECT_ID == os_getenv("GCP_PROJECT_ID")
BQ_DATASET == os_getenv("BQ_DATASET")
BQ_TABLE_NAME == os_getenv("BQ_TABLE_NAME")
GCS_BUCKET_NAME == os_getenv("GCS_BUCKET_NAME")
GCS_CSV_FILE_PATH == os_getenv("GCS_CSV_FILE_PATH")

\* What an f-string writes for a value: None is written as the text "None".
fstr(v) == IF v = {} THEN "None" ELSE CHOOSE s \in v : TRUE

\* Variant: dataset and table in the wrong order.
TableId_Swapped ==
  fstr(GCP_PROJECT_ID) \o "." \o fstr(BQ_TABLE_NAME) \o "." \o fstr(BQ_DATASET)

TableId ==
  fstr(GCP_PROJECT_ID) \o "." \o fstr(BQ_DATASET) \o "." \o fstr(BQ_TABLE_NAME)

Uri == "gs://" \o fstr(GCS_BUCKET_NAME) \o "/" \o fstr(GCS_CSV_FILE_PATH)

\* Variant: the load appends instead of replacing.
JobConfig_Append ==
  [write_disposition |-> "WRITE_APPEND",
   source_format |-> "CSV",
   skip_leading_rows |-> 1]

\* Variant: no leading row is skipped.
JobConfig_NoSkip ==
  [write_disposition |-> "WRITE_TRUNCATE",
   source_format |-> "CSV",
   skip_leading_rows |-> 0]

JobConfig ==
  [write_disposition |-> "WRITE_TRUNCATE",
   source_format |-> "CSV",
   skip_leading_rows |-> 1]

(* --------------------------- the warehouse ----------------------------- *)

NoJob == 0

TableExists(t) == t \in DOMAIN tables /\ tables[t].exists
ObjectExists(u) == u \in DOMAIN storage /\ storage[u].exists

RECURSIVE Drop(_, _)
Drop(s, n) == IF n = 0 \/ s = <<>> THEN s ELSE Drop(Tail(s), n - 1)

\* The records a load reads from an object: its lines after the skipped ones.
Records(lines, cfg) == Drop(lines, cfg.skip_leading_rows)

\* A load can succeed only if its table and object exist and every record
\* it reads is well-formed CSV.
Loadable(job) ==
  /\ job.job_config.source_format = "CSV"
  /\ TableExists(job.destination)
  /\ ObjectExists(job.source_uri)
  /\ \A k \in DOMAIN Records(storage[job.source_uri].lines, job.job_config) :
       Records(storage[job.source_uri].lines, job.job_config)[k] # "bad"

Written(job) ==
  LET recs == Records(storage[job.source_uri].lines, job.job_config)
  IN IF job.job_config.write_disposition = "WRITE_TRUNCATE"
     THEN recs
     ELSE tables[job.destination].rows \o recs

JobStart(j) ==
  /\ j \in DOMAIN jobs
  /\ jobs[j].state = "pending"
  /\ jobs' = [jobs EXCEPT ![j].state = "running"]
  /\ UNCHANGED <<environ, storage, tables, pc, table_id, uri, job_config,
                 load_job, destination_table, responses, srcVersion,
                 lastWriter, hist>>

JobSucceed(j) ==
  /\ j \in DOMAIN jobs
  /\ jobs[j].state = "running"
  /\ Loadable(jobs[j])
  /\ tables' = [tables EXCEPT ![jobs[j].destination].rows = Written(jobs[j])]
  /\ jobs' = [jobs EXCEPT ![j].state = "done",
                          ![j].output_rows =
                             Len(Records(storage[jobs[j].source_uri].lines,
                                         jobs[j].job_config)),
                          ![j].src_version = srcVersion,
                          ![j].rows_before = Len(tables[jobs[j].destination].rows)]
  /\ lastWriter' = [lastWriter EXCEPT ![jobs[j].destination] = j]
  /\ UNCHANGED <<environ, storage, pc, table_id, uri, job_config, load_job,
                 destination_table, responses, srcVersion, hist>>

\* A job may fail for any reason (schema mismatch, quota, malformed CSV, an
\* unknown table or object); a failed load leaves the table as it was.
JobFail(j) ==
  /\ j \in DOMAIN jobs
  /\ jobs[j].state = "running"
  /\ jobs' = [jobs EXCEPT ![j].state = "error"]
  /\ UNCHANGED <<environ, storage, tables, pc, table_id, uri, job_config,
                 load_job, destination_table, responses, srcVersion,
                 lastWriter, hist>>

\* Somebody rewrites a source object.
SourceChange ==
  /\ srcVersion < MaxSourceChanges
  /\ \E u \in ObjectUris, f \in Files :
       /\ storage[u].exists
       /\ f # storage[u].lines
       /\ storage' = [storage EXCEPT ![u].lines = f]
  /\ srcVersion' = srcVersion + 1
  /\ UNCHANGED <<environ, tables, jobs, pc, table_id, uri, job_config,
                 load_job, destination_table, responses, lastWriter, hist>>

(* ---------------------------- the handler ------------------------------ *)

\* An exception leaves insert_bigquery: the framework answers 500.
Raise(i, where) ==
  /\ responses' = [responses EXCEPT
                     ![i] = Append(@, [status_code |-> 500,
                                       body |-> [error |-> where]])]
  /\ pc' = [pc EXCEPT ![i] = "done"]

\* GET / arrives; the handler builds table_id, job_config and uri.
Request(i) ==
  /\ pc[i] = "idle"
  /\ table_id' = [table_id EXCEPT ![i] = TableId]
  /\ job_config' = [job_config EXCEPT ![i] = JobConfig]
  /\ uri' = [uri EXCEPT ![i] = Uri]
  /\ pc' = [pc EXCEPT ![i] = "submit"]
  /\ hist' = [hist EXCEPT ![i].after = {k \in Invocations : pc[k] = "done"}]
  /\ UNCHANGED <<environ, storage, tables, jobs, load_job, destination_table,
                 responses, srcVersion, lastWriter>>

\* load_job = big_query_client.load_table_from_uri(uri, table_id, job_config)
LoadTableFromUri(i) ==
  /\ pc[i] = "submit"
  /\ \/ /\ jobs' = Append(jobs, [owner |-> i,
                                 destination |-> table_id[i],
                                 source_uri |-> uri[i],
                                 job_config |-> job_config[i],
                                 state |-> "pending",
                                 output_rows |-> 0,
                                 src_version |-> 0,
                                 rows_before |-> 0])
        /\ load_job' = [load_job EXCEPT ![i] = Len(jobs) + 1]
        /\ pc' = [pc EXCEPT ![i] = "wait"]
        /\ hist' = [hist EXCEPT ![i].submissions = @ + 1]
        /\ UNCHANGED responses
     \/ /\ Raise(i, "submit")
        /\ hist' = [hist EXCEPT ![i].failed = "submit"]
        /\ UNCHANGED <<jobs, load_job>>
  /\ UNCHANGED <<environ, storage, tables, table_id, uri, job_config,
                 destination_table, srcVersion, lastWriter>>

\* Variant: a failed job is not raised; the handler carries on.
LoadJobResult_IgnoreError(i) ==
  /\ pc[i] = "wait"
  /\ jobs[load_job[i]].state \in {"done", "error"}
  /\ pc' = [pc EXCEPT ![i] = "fetch"]
  /\ UNCHANGED <<environ, storage, tables, jobs, table_id, uri, job_config,
                 load_job, destination_table, responses, srcVersion,
                 lastWriter, hist>>

\* Variant: the wait does not block; it returns whatever the job's state.
LoadJobResult_NoWait(i) ==
  /\ pc[i] = "wait"
  /\ \/ /\ jobs[load_job[i]].state # "error"
        /\ pc' = [pc EXCEPT ![i] = "fetch"]
        /\ UNCHANGED <<responses, hist>>
     \/ /\ jobs[load_job[i]].state = "error"
        /\ Raise(i, "job")
        /\ hist' = [hist EXCEPT ![i].failed = "job"]
  /\ UNCHANGED <<environ, storage, tables, jobs, table_id, uri, job_config,
                 load_job, destination_table, srcVersion, lastWriter>>

\* Variant: the wait gives up on a job that has not finished.
LoadJobResult_Timeout(i) ==
  /\ pc[i] = "wait"
  /\ \/ /\ jobs[load_job[i]].state = "done"
        /\ pc' = [pc EXCEPT ![i] = "fetch"]
        /\ UNCHANGED <<responses, hist>>
     \/ /\ jobs[load_job[i]].state # "done"
        /\ Raise(i, "job")
        /\ hist' = [hist EXCEPT ![i].failed = "job"]
  /\ UNCHANGED <<environ, storage, tables, jobs, table_id, uri, job_config,
                 load_job, destination_table, srcVersion, lastWriter>>

\* load_job.result(): returns once the job is done, raises once it has failed.
LoadJobResult(i) ==
  /\ pc[i] = "wait"
  /\ \/ /\ jobs[load_job[i]].state = "done"
        /\ pc' = [pc EXCEPT ![i] = "fetch"]
        /\ UNCHANGED <<responses, hist>>
     \/ /\ jobs[load_job[i]].state = "error"
        /\ Raise(i, "job")
        /\ hist' = [hist EXCEPT ![i].failed = "job"]
  /\ UNCHANGED <<environ, storage, tables, jobs, table_id, uri, job_config,
                 load_job, destination_table, srcVersion, lastWriter>>

\* Variant: a failed metadata fetch is swallowed and counted as zero rows.
GetTable_Fallback(i) ==
  /\ pc[i] = "fetch"
  /\ \/ /\ TableExists(table_id[i])
        /\ destination_table' =
             [destination_table EXCEPT
                ![i] = [num_rows |-> Len(tables[table_id[i]].rows)]]
        /\ hist' = [hist EXCEPT ![i].fetches = @ + 1,
                                ![i].fetch_id = table_id[i],
                                ![i].fetch_rows = Len(tables[table_id[i]].rows),
                                ![i].fetch_writer = lastWriter[table_id[i]],
                                ![i].fetch_version = srcVersion]
     \/ /\ destination_table' = [destination_table EXCEPT ![i] = [num_rows |-> 0]]
        /\ hist' = [hist EXCEPT ![i].failed = "fetch"]
  /\ pc' = [pc EXCEPT ![i] = "return"]
  /\ UNCHANGED <<environ, storage, tables, jobs, table_id, uri, job_config,
                 load_job, responses, srcVersion, lastWriter>>

\* destination_table = big_query_client.get_table(table_id)
GetTable(i) ==
  /\ pc[i] = "fetch"
  /\ \/ /\ TableExists(table_id[i])
        /\ destination_table' =
             [destination_table EXCEPT
                ![i] = [num_rows |-> Len(tables[table_id[i]].rows)]]
        /\ pc' = [pc EXCEPT ![i] = "return"]
        /\ hist' = [hist EXCEPT ![i].fetches = @ + 1,
                                ![i].fetch_id = table_id[i],
                                ![i].fetch_rows = Len(tables[table_id[i]].rows),
                                ![i].fetch_writer = lastWriter[table_id[i]],
                                ![i].fetch_version = srcVersion]
        /\ UNCHANGED responses
     \/ /\ Raise(i, "fetch")
        /\ hist' = [hist EXCEPT ![i].failed = "fetch"]
        /\ UNCHANGED destination_table
  /\ UNCHANGED <<environ, storage, tables, jobs, table_id, uri, job_config,
                 load_job, srcVersion, lastWriter>>

\* Variant: the answer reports the job's own output_rows, not the table's.
Return_JobRows(i) ==
  /\ pc[i] = "return"
  /\ responses' = [responses EXCEPT
                     ![i] = Append(@, [status_code |-> 200,
                                       body |-> [data |-> jobs[load_job[i]].output_rows]])]
  /\ pc' = [pc EXCEPT ![i] = "done"]
  /\ UNCHANGED <<environ, storage, tables, jobs, table_id, uri, job_config,
                 load_job, destination_table, srcVersion, lastWriter, hist>>

\* return JSONResponse({"data": destination_table.num_rows})
Return(i) ==
  /\ pc[i] = "return"
  /\ responses' = [responses EXCEPT
                     ![i] = Append(@, [status_code |-> 200,
                                       body |-> [data |-> destination_table[i].num_rows]])]
  /\ pc' = [pc EXCEPT ![i] = "done"]
  /\ UNCHANGED <<environ, storage, tables, jobs, table_id, uri, job_config,
                 load_job, destination_table, srcVersion, lastWriter, hist>>

(* --------------------------- specification ----------------------------- *)

NoHist ==
  [after |-> {}, submissions |-> 0, fetches |-> 0, fetch_id |-> "",
   fetch_rows |-> 0, fetch_writer |-> NoJob, fetch_version |-> 0,
   failed |-> "none"]

\* The state after import: the settings read, nothing submitted, no request
\* yet; the store holds the configured object and the warehouse the
\* configured table, and perhaps each also holds one named None.
InitWith(environs, files, strays) ==
  /\ environ \in environs
  /\ \E f \in files, old \in {<<>>, <<"old">>}, stray \in strays :
       /\ storage = [u \in ObjectUris |->
                       IF u = "gs://b/file.csv"
                       THEN [exists |-> TRUE, lines |-> f]
                       ELSE [exists |-> stray, lines |-> <<"hdr", "row">>]]
       /\ tables = [t \in TableIds |->
                      IF t = "p.d.t"
                      THEN [exists |-> TRUE, rows |-> old]
                      ELSE [exists |-> stray, rows |-> <<>>]]
  /\ jobs = <<>>
  /\ pc = [i \in Invocations |-> "idle"]
  /\ table_id = [i \in Invocations |-> ""]
  /\ uri = [i \in Invocations |-> ""]
  /\ job_config = [i \in Invocations |-> JobConfig]
  /\ load_job = [i \in Invocations |-> NoJob]
  /\ destination_table = [i \in Invocations |-> [num_rows |-> 0]]
  /\ responses = [i \in Invocations |-> <<>>]
  /\ srcVersion = 0
  /\ lastWriter = [t \in TableIds |-> NoJob]
  /\ hist = [i \in Invocations |-> NoHist]

Init == InitWith(Environs, Files, BOOLEAN)

Next ==
  \/ \E i \in Invocations : Request(i)
  \/ \E i \in Invocations : LoadTableFromUri(i)
  \/ \E i \in Invocations : LoadJobResult(i)
  \/ \E i \in Invocations : GetTable(i)
  \/ \E i \in Invocations : Return(i)
  \/ \E j \in 1..NumInvocations : JobStart(j)
  \/ \E j \in 1..NumInvocations : JobSucceed(j)
  \/ \E j \in 1..NumInvocations : JobFail(j)
  \/ SourceChange

Spec == Init /\ [][Next]_vars

\* Every external call returns and every job reaches a terminal state; the
\* thread pool runs every handler that can take a step.
Fairness ==
  /\ \A i \in Invocations :
       /\ WF_vars(LoadTableFromUri(i))
       /\ WF_vars(LoadJobResult(i))
       /\ WF_vars(GetTable(i))
       /\ WF_vars(Return(i))
  /\ \A j \in 1..NumInvocations :
       /\ WF_vars(JobStart(j))
       /\ WF_vars(JobSucceed(j) \/ JobFail(j))

\* The runs checked for progress start from the intended settings or one
\* unset setting, with a well-formed or a malformed source.
FairInit ==
  InitWith({e \in Environs : \A n \in VarNames : e[n] # {""}},
           {f \in Files : f \in {<<"hdr", "row">>, <<"hdr", "bad">>}},
           {TRUE})

FairSpec == FairInit /\ [][Next]_vars /\ Fairness

(* ------------------------------ properties ----------------------------- *)

Responded(i) == pc[i] = "done"
Response(i) == responses[i][1]
Succeeded(i) ==
  /\ Responded(i)
  /\ Len(responses[i]) = 1
  /\ Response(i).status_code = 200
Errored(i) ==
  /\ Responded(i)
  /\ Len(responses[i]) = 1
  /\ Response(i).status_code = 500
  /\ "data" \notin DOMAIN Response(i).body
Job(i) == jobs[load_job[i]]
Submitted(i) == load_job[i] # NoJob
Terminal(job) == job.state \in {"done", "error"}

\* Invocation k ran entirely before i started, or the other way round, or
\* k has not started.
Apart(i, k) == k \in hist[i].after \/ i \in hist[k].after \/ pc[k] = "idle"
Alone(i) == \A k \in Invocations \ {i} : Apart(i, k)

ValidConfig == Degenerate(environ) = {}

\* A well-formed CSV source: nothing, or a header line followed by data rows.
ValidCsv(lines) ==
  \/ lines = <<>>
  \/ /\ lines[1] = "hdr"
     /\ \A k \in 2..Len(lines) : lines[k] = "row"

IsRow(l) == l = "row"
DataRows(lines) == SelectSeq(lines, IsRow)

\* The object the handler's uri names, as it is now.
SourceNow(i) == storage[uri[i]].lines

\* C1 as stated: with a valid configuration and a well-formed CSV source that
\* does not change, an invocation that runs alone ends with a success
\* response whose data is the number of data rows of the source.
C1_AlwaysSucceeds ==
  \A i \in Invocations :
    (/\ Responded(i)
     /\ Alone(i)
     /\ ValidConfig
     /\ srcVersion = 0
     /\ ValidCsv(SourceNow(i)))
    => /\ Succeeded(i)
       /\ Response(i).body.data = Len(DataRows(SourceNow(i)))

\* C1 as amended: with a valid configuration, an invocation that runs alone
\* ends with a success response exactly when none of its external calls
\* failed, and otherwise with an error response; the data of a success
\* response is the number of data rows of the well-formed source its job
\* loaded (0 for an empty source).
C1_SucceedsUnlessExternalFailure ==
  \A i \in Invocations :
    (Responded(i) /\ Alone(i) /\ ValidConfig)
    => /\ hist[i].failed = "none" => Succeeded(i)
       /\ hist[i].failed # "none" => Errored(i)
       /\ (/\ Succeeded(i)
           /\ Job(i).src_version = srcVersion
           /\ ValidCsv(SourceNow(i)))
          => Response(i).body.data = Len(DataRows(SourceNow(i)))

\* C1 witness: in one run, a lone invocation answered 1 for a header and one
\* row, and a later lone invocation answered 0 for the then empty source.
C1_Witness ==
  \E i, k \in Invocations :
    /\ ValidConfig
    /\ i \in hist[k].after
    /\ Succeeded(i) /\ Response(i).body.data = 1
    /\ Succeeded(k) /\ Response(k).body.data = 0
    /\ Job(k).src_version = srcVersion
    /\ SourceNow(k) = <<>>

\* C2: an invocation whose own load job failed never fetches the table
\* metadata and never emits a success response; once it has responded, its
\* response is an error without a data value.
C2_FailedJobNoSuccess ==
  \A i \in Invocations :
    (Submitted(i) /\ Job(i).state = "error")
    => /\ hist[i].fetches = 0
       /\ pc[i] \in {"wait", "done"}
       /\ \A n \in DOMAIN responses[i] : responses[i][n].status_code # 200
       /\ Responded(i) => Errored(i)

C2_Witness ==
  \E i \in Invocations :
    /\ Submitted(i)
    /\ Job(i).state = "error"
    /\ Errored(i)
    /\ Response(i).body.error = "job"

\* C3 as stated: if any of the five settings is unset or empty at process
\* start, no invocation ever emits a success response.
C3_DegenerateConfigNeverSucceeds ==
  Degenerate(environ) # {}
  => \A i \in Invocations :
       \A n \in DOMAIN responses[i] : responses[i][n].status_code # 200

\* The text a setting contributes to an identifier: its value, and the word
\* None for a setting that is unset.
Shown(n) == IF environ[n] = {} THEN "None" ELSE CHOOSE s \in environ[n] : TRUE

\* C4: every load job submitted has destination <project>.<dataset>.<table>,
\* source gs://<bucket>/<path>, and the options CSV, one skipped row,
\* WRITE_TRUNCATE; with the settings p, d, t, b, file.csv these are p.d.t and
\* gs://b/file.csv; and a metadata fetch asks for the destination of the
\* invocation's own load job.
C4_LoadRequestShape ==
  /\ \A j \in DOMAIN jobs :
       /\ jobs[j].destination =
            Shown("GCP_PROJECT_ID") \o "." \o Shown("BQ_DATASET") \o "."
              \o Shown("BQ_TABLE_NAME")
       /\ jobs[j].source_uri =
            "gs://" \o Shown("GCS_BUCKET_NAME") \o "/" \o Shown("GCS_CSV_FILE_PATH")
       /\ jobs[j].job_config.source_format = "CSV"
       /\ jobs[j].job_config.skip_leading_rows = 1
       /\ jobs[j].job_config.write_disposition = "WRITE_TRUNCATE"
       /\ ValidConfig =>
            /\ jobs[j].destination = "p.d.t"
            /\ jobs[j].source_uri = "gs://b/file.csv"
  /\ \A i \in Invocations :
       hist[i].fetches > 0 => hist[i].fetch_id = Job(i).destination

C4_Witness ==
  \E i \in Invocations :
    /\ Submitted(i)
    /\ Job(i).destination = "p.d.t"
    /\ Job(i).source_uri = "gs://b/file.csv"
    /\ hist[i].fetches = 1
    /\ hist[i].fetch_id = "p.d.t"

\* C5: when invocation k starts after invocation i has responded, both answer
\* with success, and no source object changed between i's load and k's
\* metadata fetch, the two data values are equal.
C5_SameDataTwice ==
  \A i, k \in Invocations :
    (/\ i \in hist[k].after
     /\ Succeeded(i)
     /\ Succeeded(k)
     /\ Job(i).src_version = hist[k].fetch_version)
    => Response(i).body.data = Response(k).body.data

\* C5 witness: two successive successes over a non-empty source, into a table
\* that held a row before the first.
C5_Witness ==
  \E i, k \in Invocations :
    /\ i \in hist[k].after
    /\ Succeeded(i)
    /\ Succeeded(k)
    /\ Job(i).src_version = hist[k].fetch_version
    /\ Job(i).rows_before > 0
    /\ Response(k).body.data > 0

\* C6: right after a load job has succeeded (no later load into the table, no
\* source change since), the destination table holds exactly the data rows
\* of the well-formed source, and none of the rows it held before.
C6_TableOverwritten ==
  \A j \in DOMAIN jobs :
    (/\ jobs[j].state = "done"
     /\ lastWriter[jobs[j].destination] = j
     /\ jobs[j].src_version = srcVersion
     /\ ValidCsv(storage[jobs[j].source_uri].lines))
    => /\ tables[jobs[j].destination].rows =
            DataRows(storage[jobs[j].source_uri].lines)
       /\ \A n \in DOMAIN tables[jobs[j].destination].rows :
            tables[jobs[j].destination].rows[n] # "old"

\* C6 witness: a load of a header and a row replaced a table that held a row.
C6_Witness ==
  \E j \in DOMAIN jobs :
    /\ jobs[j].state = "done"
    /\ lastWriter[jobs[j].destination] = j
    /\ jobs[j].src_version = srcVersion
    /\ jobs[j].rows_before > 0
    /\ storage[jobs[j].source_uri].lines = <<"hdr", "row">>
    /\ tables[jobs[j].destination].rows = <<"row">>

\* C7: an invocation has responded only if its submission failed or its job
\* is terminal; it is past the wait, and has fetched metadata, only if its
\* job is done; and a success response carries the row count that its one
\* metadata fetch returned.
C7_SubmitWaitFetchRespond ==
  \A i \in Invocations :
    /\ responses[i] # <<>> => (Responded(i) /\ (Submitted(i) => Terminal(Job(i))))
    /\ pc[i] \in {"fetch", "return"} => (Submitted(i) /\ Job(i).state = "done")
    /\ hist[i].fetches > 0 => (Submitted(i) /\ Job(i).state = "done")
    /\ Succeeded(i) =>
         /\ hist[i].fetches = 1
         /\ Response(i).body.data = hist[i].fetch_rows

C7_Witness ==
  \E i \in Invocations :
    /\ Succeeded(i)
    /\ Job(i).state = "done"
    /\ hist[i].fetches = 1
    /\ Response(i).body.data = hist[i].fetch_rows
    /\ Response(i).body.data > 0

\* C8: when every job terminates and every external call returns, every
\* invocation that has started eventually responds; it never emits more than
\* one response nor submits more than one job; and it leaves the wait only
\* when its job is terminal (it has no timeout and does not cancel).
C8_RespondsOnceNoTimeout ==
  /\ \A i \in Invocations : (pc[i] # "idle") ~> Responded(i)
  /\ [](\A i \in Invocations :
          /\ Len(responses[i]) <= 1
          /\ hist[i].submissions <= 1
          /\ Cardinality({j \in DOMAIN jobs : jobs[j].owner = i}) <= 1
          /\ Responded(i) => Len(responses[i]) = 1)
  /\ [][\A i \in Invocations :
          (pc[i] = "wait" /\ pc'[i] # "wait") => Terminal(Job(i))]_vars

C8_Witness ==
  \E i \in Invocations :
    /\ Responded(i)
    /\ Len(responses[i]) = 1
    /\ hist[i].submissions = 1
    /\ Terminal(Job(i))

\* C9: an invocation one of whose external calls failed has responded, with
\* one error response that carries no data, after at most one submission and
\* without a (further) metadata fetch; and every error response comes from
\* such a failure.
C9_FailurePropagates ==
  \A i \in Invocations :
    /\ hist[i].failed # "none" =>
         /\ Errored(i)
         /\ Response(i).body.error = hist[i].failed
         /\ hist[i].submissions <= 1
         /\ hist[i].fetches = 0
    /\ (responses[i] # <<>> /\ Response(i).status_code # 200) =>
         hist[i].failed # "none"

\* C9 witness: the load replaced a non-empty table by an empty one, the
\* metadata fetch then failed, and the response is an error.
C9_Witness ==
  \E i \in Invocations :
    /\ hist[i].failed = "fetch"
    /\ Errored(i)
    /\ Job(i).state = "done"
    /\ Job(i).rows_before > 0
    /\ tables[table_id[i]].rows = <<>>

\* C10 as stated: the data of every success response is the number of rows
\* written by the invocation's own load job.
C10_OwnJobRows ==
  \A i \in Invocations :
    Succeeded(i) => Response(i).body.data = Job(i).output_rows

\* C10 as amended: the data of every success response is the number of rows
\* written by the load job that last rewrote the destination table before
\* the invocation's metadata fetch; that job is the invocation's own unless
\* it belongs to an invocation that ran concurrently with it.
C10_LastLoadRows ==
  \A i \in Invocations :
    Succeeded(i) =>
      /\ hist[i].fetch_writer \in DOMAIN jobs
      /\ jobs[hist[i].fetch_writer].state = "done"
      /\ jobs[hist[i].fetch_writer].destination = table_id[i]
      /\ Response(i).body.data = jobs[hist[i].fetch_writer].output_rows
      /\ \/ hist[i].fetch_writer = load_job[i]
         \/ ~Apart(i, jobs[hist[i].fetch_writer].owner)

\* C10 witness: a success response reports the rows of the other, concurrent
\* invocation's load, which differ from those of its own.
C10_Witness ==
  \E i \in Invocations :
    /\ Succeeded(i)
    /\ hist[i].fetch_writer # load_job[i]
    /\ Response(i).body.data # Job(i).output_rows

=============================================================================
